---- MODULE Spec2Model ----
(***************************************************************************)
(* Model of the brand command line tool (src/brand.js, src/auth.js):       *)
(* identifier classification (isEmail, isPhoneNumber, getUidById,          *)
(* getUserById) and the two-stage batch commands revoke, disable, enable,  *)
(* delete and get, run against a small user directory.                     *)
(*                                                                         *)
(* Strings of the program are sequences of one-character strings, so that  *)
(* the regular expressions of auth.js can be evaluated on them.            *)
(***************************************************************************)
EXTENDS Integers, Sequences, FiniteSets, TLC

\* Largest number of identifiers on the command line of a batch command.
MaxIds == 3

(***************************************************************************)
(* Characters.                                                             *)
(***************************************************************************)
Digits == {"0", "1", "2", "3", "4", "5", "6", "7", "8", "9"}

\* The characters \s matches, among those the model uses.
Whitespace == {" ", "\n"}

\* Line terminators: where ^ and $ match under the m flag, and what . skips.
LineTerminators == {"\n"}

Alphabet ==
  Digits \cup Whitespace \cup
  {"a", "b", "c", "u", "x", "@", ".", "-", "+", "(", ")", "/", "<", "\""}

\* The characters listed in the negated class [^<>()[\]\.,;:\s@\"] of isEmail.
EmailExcluded ==
  {"<", ">", "(", ")", "[", "]", ".", ",", ";", ":", "@", "\""} \cup Whitespace

AtomChars == Alphabet \ EmailExcluded

\* What . matches (no s flag): any character but a line terminator.
AnyChar == Alphabet \ LineTerminators

\* The class [-\s\.] of isPhoneNumber.
PhoneSep == {"-", "."} \cup Whitespace

(***************************************************************************)
(* Regular expression matching by position sets: P is the set of positions *)
(* (index of the next character to read) the match may have reached.       *)
(***************************************************************************)
\* One character of class C.
Step(s, P, C) == {p + 1 : p \in {q \in P : q <= Len(s) /\ s[q] \in C}}

\* C?
Opt(s, P, C) == P \cup Step(s, P, C)

\* C+
RECURSIVE Plus(_, _, _)
Plus(s, P, C) ==
  LET Q == Step(s, P, C)
  IN  IF Q = {} THEN {} ELSE Q \cup Plus(s, Q, C)

\* C{n}
RECURSIVE Times(_, _, _, _)
Times(s, P, C, n) == IF n = 0 THEN P ELSE Times(s, Step(s, P, C), C, n - 1)

\* C{lo,hi}
Between(s, P, C, lo, hi) == UNION {Times(s, P, C, n) : n \in lo..hi}

\* (\.A+)* after a first A+ : atoms separated by dots.
RECURSIVE DotAtomsClose(_, _)
DotAtomsClose(s, X) ==
  LET Y == X \cup Plus(s, Step(s, X, {"."}), AtomChars)
  IN  IF Y = X THEN X ELSE DotAtomsClose(s, Y)

\* (A+\.)+ : one or more labels, each followed by a dot.
RECURSIVE LabelsClose(_, _)
LabelsClose(s, X) ==
  LET Y == X \cup Step(s, Plus(s, X, AtomChars), {"."})
  IN  IF Y = X THEN X ELSE LabelsClose(s, Y)

\* /^((A+(\.A+)*)|(".+"))@((A+\.)+A{2,})$/i searched from index from: the
\* indices at which a match can end.  Without the m flag ^ matches at index 0
\* only and $ at the end of the input only.
EmailEnds(input, from) ==
  LET dotAtoms == DotAtomsClose(input, Plus(input, {1}, AtomChars))
      quoted   == Step(input,
                       Plus(input, Step(input, {1}, {"\""}), AnyChar),
                       {"\""})
      at       == Step(input, dotAtoms \cup quoted, {"@"})
      labels   == LabelsClose(input,
                              Step(input, Plus(input, at, AtomChars), {"."}))
      tld      == Plus(input, Step(input, labels, AtomChars), AtomChars)
  IN  IF from = 0 /\ (Len(input) + 1) \in tld THEN {Len(input)} ELSE {}

\* /^[\+]?[(]?[0-9]{3}[)]?[-\s\.]?[0-9]{3}[-\s\.]?[0-9]{4,6}$/im searched from
\* index from: the indices at which a match can end.  With the m flag ^
\* matches at the start of a line and $ at the end of one.
PhoneEnds(input, from) ==
  LET starts == {p \in {1} \cup
                       {k + 1 : k \in {j \in 1..Len(input) :
                                         input[j] \in LineTerminators}} :
                   p > from}
      p1 == Opt(input, starts, {"+"})
      p2 == Opt(input, p1, {"("})
      p3 == Times(input, p2, Digits, 3)
      p4 == Opt(input, p3, {")"})
      p5 == Opt(input, p4, PhoneSep)
      p6 == Times(input, p5, Digits, 3)
      p7 == Opt(input, p6, PhoneSep)
      p8 == Between(input, p7, Digits, 4, 6)
  IN  {p - 1 : p \in {q \in p8 : q = Len(input) + 1 \/ input[q] \in LineTerminators}}

(***************************************************************************)
(* The objects of the regular expressions.  An object has its flags and    *)
(* lastIndex; test starts at lastIndex, and writes it, only under the g or *)
(* y flag.                                                                 *)
(***************************************************************************)
NoRegExp == [flags |-> {}, lastIndex |-> 0, made |-> FALSE]

\* One expression object with the g flag, made by the first call and used
\* by every later one.
RegExpLiteral_Shared(old, flags) ==
  IF old.made THEN old
  ELSE [flags |-> flags \cup {"g"}, lastIndex |-> 0, made |-> TRUE]

\* const expr = /.../flags in the body of the function: every call makes an
\* object of its own, whatever object (old) the call before has made.
RegExpLiteral(old, flags) == [flags |-> flags, lastIndex |-> 0, made |-> TRUE]

\* Where expr.test starts its search.
Searched(expr) ==
  IF expr.flags \cap {"g", "y"} # {} THEN expr.lastIndex ELSE 0

\* expr.test(input), ends being the indices at which a match searched from
\* Searched(expr) can end: the result, and the object after the call.
test(expr, ends) ==
  [result |-> ends # {},
   expr |-> IF expr.flags \cap {"g", "y"} = {} THEN expr
            ELSE IF ends = {} THEN [expr EXCEPT !.lastIndex = 0]
            ELSE [expr EXCEPT !.lastIndex =
                    CHOOSE e \in ends : \A f \in ends : e <= f]]

\* No call of isEmail or isPhoneNumber has been made yet.
NoExprs == [email |-> NoRegExp, phone |-> NoRegExp]

\* isEmail(input), given the objects the calls before have made.
isEmailOn(heap, input) ==
  LET expr == RegExpLiteral(heap.email, {"i"})
      t == test(expr, EmailEnds(input, Searched(expr)))
  IN  [result |-> t.result, heap |-> [heap EXCEPT !.email = t.expr]]

\* isPhoneNumber(input), given the objects the calls before have made.
isPhoneNumberOn(heap, input) ==
  LET expr == RegExpLiteral(heap.phone, {"i", "m"})
      t == test(expr, PhoneEnds(input, Searched(expr)))
  IN  [result |-> t.result, heap |-> [heap EXCEPT !.phone = t.expr]]

isEmail(input) == isEmailOn(NoExprs, input).result

isPhoneNumber(input) == isPhoneNumberOn(NoExprs, input).result


(***************************************************************************)
(* The user directory (the remote service behind firebase-admin's auth()). *)
(***************************************************************************)
U1 == <<"u", "1">>
U2 == <<"u", "2">>
Uids == {U1, U2}

Email1 == <<"a", "@", "b", ".", "c", "c">>
Phone1 == <<"+", "1", "2", "3", "4", "5", "6", "7", "8", "9", "0">>
Phone2 == <<"1", "2", "3", "4", "5", "6", "7", "8", "9", "0">>

\* The uids of the records create can add: two an operator may choose, the
\* second a string of ten digits, and the one the service generates when
\* none is chosen.
U3 == <<"u", "3">>
GenUid == <<"g", "1">>
NewUids == {U3, Phone2, GenUid}
AllUids == Uids \cup NewUids

\* The fields of a record that is not in the directory.
Absent ==
  [present |-> FALSE, email |-> <<>>, phoneNumber |-> <<>>,
   displayName |-> <<>>, disabled |-> FALSE, revoked |-> FALSE,
   emailVerified |-> FALSE, photoURL |-> <<>>, customClaims |-> <<>>,
   creationTime |-> <<>>, lastSignInTime |-> <<>>]

\* The directory the commands start from: two records.
InitialDir ==
  [u \in AllUids |->
     IF u \in NewUids THEN Absent
     ELSE IF u = U1
     THEN [present |-> TRUE, email |-> Email1, phoneNumber |-> Phone1,
           displayName |-> <<>>, disabled |-> FALSE, revoked |-> FALSE,
           emailVerified |-> TRUE, photoURL |-> <<>>, customClaims |-> <<>>,
           creationTime |-> <<"t", "1">>, lastSignInTime |-> <<"t", "3">>]
     ELSE [present |-> TRUE, email |-> <<>>, phoneNumber |-> <<>>,
           displayName |-> <<"x">>, disabled |-> TRUE, revoked |-> FALSE,
           emailVerified |-> FALSE, photoURL |-> <<"p">>, customClaims |-> <<>>,
           creationTime |-> <<"t", "2">>, lastSignInTime |-> <<>>]]

\* The user record the directory returns for uid u.
UserRecord(d, u) ==
  [uid |-> u, email |-> d[u].email, phoneNumber |-> d[u].phoneNumber,
   displayName |-> d[u].displayName, disabled |-> d[u].disabled,
   emailVerified |-> d[u].emailVerified, photoURL |-> d[u].photoURL,
   customClaims |-> d[u].customClaims,
   metadata |-> [creationTime |-> d[u].creationTime,
                 lastSignInTime |-> d[u].lastSignInTime]]

\* The value of a promise fulfilled with undefined.
NoUser ==
  [uid |-> <<>>, email |-> <<>>, phoneNumber |-> <<>>, displayName |-> <<>>,
   disabled |-> FALSE, emailVerified |-> FALSE, photoURL |-> <<>>,
   customClaims |-> <<>>,
   metadata |-> [creationTime |-> <<>>, lastSignInTime |-> <<>>]]

\* The uids a lookup call of the directory finds (none or one).
Lookup(d, method, arg) ==
  {u \in DOMAIN d :
     /\ d[u].present
     /\ arg # <<>>
     /\ CASE method = "getUserByEmail"       -> d[u].email = arg
          [] method = "getUserByPhoneNumber" -> d[u].phoneNumber = arg
          [] method = "getUser"              -> u = arg
          [] OTHER                           -> FALSE}

\* reason.message of a failed remote call.
FailureReason(net) == IF net THEN "auth/user-not-found" ELSE "network-error"

\* displayName || email || phoneNumber || uid
presentableName(user) ==
  IF user.displayName # <<>> THEN user.displayName
  ELSE IF user.email # <<>> THEN user.email
  ELSE IF user.phoneNumber # <<>> THEN user.phoneNumber
  ELSE user.uid

(***************************************************************************)
(* Promises.  st is the state of the promise, call the state of the remote *)
(* call behind it ("none" when no remote call was issued).                 *)
(***************************************************************************)
\* The promise auth.js returns around a remote lookup that is in flight.
RemoteLookup(method, id) ==
  [lookup |-> method, arg |-> id, call |-> "pending", st |-> "pending",
   hasValue |-> FALSE, v |-> <<>>, user |-> NoUser, reason |-> ""]

\* getUidById with the phone test before the email test.
getUidById_PhoneFirst(id, o) ==
  IF isPhoneNumber(id) \/ o.phoneNumber
  THEN RemoteLookup("getUserByPhoneNumber", id)
  ELSE IF isEmail(id) \/ o.email
  THEN RemoteLookup("getUserByEmail", id)
  ELSE [lookup |-> "none", arg |-> id, call |-> "none", st |-> "fulfilled",
        hasValue |-> TRUE, v |-> id, user |-> NoUser, reason |-> ""]

\* getUidById whose last branch resolves without the identifier.
getUidById_ResolveNothing(id, o) ==
  IF isEmail(id) \/ o.email
  THEN RemoteLookup("getUserByEmail", id)
  ELSE IF isPhoneNumber(id) \/ o.phoneNumber
  THEN RemoteLookup("getUserByPhoneNumber", id)
  ELSE [lookup |-> "none", arg |-> id, call |-> "none", st |-> "fulfilled",
        hasValue |-> FALSE, v |-> <<>>, user |-> NoUser, reason |-> ""]

\* getUidById that looks an identifier of neither shape up by uid.
getUidById_LooksUp(id, o) ==
  IF isEmail(id) \/ o.email
  THEN RemoteLookup("getUserByEmail", id)
  ELSE IF isPhoneNumber(id) \/ o.phoneNumber
  THEN RemoteLookup("getUserByPhoneNumber", id)
  ELSE RemoteLookup("getUser", id)

getUidById(id, o) ==
  IF isEmail(id) \/ o.email
  THEN RemoteLookup("getUserByEmail", id)
  ELSE IF isPhoneNumber(id) \/ o.phoneNumber
  THEN RemoteLookup("getUserByPhoneNumber", id)
  ELSE [lookup |-> "none", arg |-> id, call |-> "none", st |-> "fulfilled",
        hasValue |-> TRUE, v |-> id, user |-> NoUser, reason |-> ""]

\* getUserById that tests the phone flag alone, not the shape.
getUserById_PhoneFlagOnly(id, o) ==
  IF isEmail(id) \/ o.email
  THEN RemoteLookup("getUserByEmail", id)
  ELSE IF o.phoneNumber
  THEN RemoteLookup("getUserByPhoneNumber", id)
  ELSE RemoteLookup("getUser", id)

getUserById(id, o) ==
  IF isEmail(id) \/ o.email
  THEN RemoteLookup("getUserByEmail", id)
  ELSE IF isPhoneNumber(id) \/ o.phoneNumber
  THEN RemoteLookup("getUserByPhoneNumber", id)
  ELSE RemoteLookup("getUser", id)

\* The then/catch of auth.js once the lookup has settled: resolve(user.uid) or
\* resolve(user), or reject(reason).
LookupSettled(req, d, net) ==
  LET found == Lookup(d, req.lookup, req.arg)
  IN  IF net /\ found # {}
      THEN LET u == CHOOSE x \in found : TRUE
           IN  [req EXCEPT !.call = "ok", !.st = "fulfilled", !.hasValue = TRUE,
                           !.v = u, !.user = UserRecord(d, u)]
      ELSE [req EXCEPT !.call = "failed", !.st = "rejected",
                       !.reason = FailureReason(net)]

\* A console line.
Line(text, arg, reason) == [text |-> text, arg |-> arg, reason |-> reason]

\* A catch handler that prints the line and throws the reason again.
CatchRethrow(p, line) ==
  IF p.st = "rejected"
  THEN [p |-> p, lines |-> <<line>>]
  ELSE [p |-> p, lines |-> <<>>]

\* A catch handler that swallows the rejection without printing.
CatchSilent(p, line) ==
  IF p.st = "rejected"
  THEN [p |-> [p EXCEPT !.st = "fulfilled", !.hasValue = FALSE],
        lines |-> <<>>]
  ELSE [p |-> p, lines |-> <<>>]

\* promise.catch((reason) => { console.log(line) }): the promise it returns and
\* the lines it prints.
Catch(p, line) ==
  IF p.st = "rejected"
  THEN [p |-> [p EXCEPT !.st = "fulfilled", !.hasValue = FALSE],
        lines |-> <<line>>]
  ELSE [p |-> p, lines |-> <<>>]

\* promise.then(() => { console.log(line) }): fulfilled with undefined.
Then(p, line) ==
  IF p.st = "fulfilled"
  THEN [p |-> [p EXCEPT !.hasValue = FALSE], lines |-> <<line>>]
  ELSE [p |-> p, lines |-> <<>>]

\* A join that never settles on an empty list.
PromiseAll_NeverEmpty(reqs) ==
  IF \E i \in DOMAIN reqs : reqs[i].st = "rejected" THEN "rejected"
  ELSE IF reqs # <<>> /\ \A i \in DOMAIN reqs : reqs[i].st = "fulfilled"
  THEN "fulfilled"
  ELSE "pending"

\* Promise.all(reqs): rejected as soon as one is, fulfilled when all are.
PromiseAll(reqs) ==
  IF \E i \in DOMAIN reqs : reqs[i].st = "rejected" THEN "rejected"
  ELSE IF \A i \in DOMAIN reqs : reqs[i].st = "fulfilled" THEN "fulfilled"
  ELSE "pending"

\* !value
Falsy(p) == ~p.hasValue \/ p.v = <<>>

(***************************************************************************)
(* The program state.                                                      *)
(***************************************************************************)
VARIABLES
  cmd,         \* the command given on the command line
  opts,        \* program.opts(): the global options --email, --phone-number
  ids,         \* the <ids...> argument
  pc,          \* "start", "resolving", "acting", "exited"
  dir,         \* the user directory
  uidReqs,     \* the promises of the first stage of revoke/disable/enable/delete
  toggleReqs,  \* the promises of their second stage
  getReqs,     \* the promises of get
  tableData,   \* the rows get hands to console.table
  out,         \* the lines printed with console.log
  exits,       \* the calls of process.exit, in order
  calls,       \* the calls made on the directory service, in order
  tables,      \* the tables printed with console.table
  answers,     \* the answers to the prompts of update and create
  mutReq,      \* the promise of auth.updateUser / auth.createUser
  options,     \* the options of the command itself (get --detailed, create --fake)
  createReqs   \* the promises of create --fake

vars ==
  <<cmd, opts, ids, pc, dir, uidReqs, toggleReqs, getReqs, tableData, out, exits,
    calls, tables, answers, mutReq, options, createReqs>>

Mutating == {"revoke", "disable", "enable", "delete"}
Commands == Mutating \cup {"get"}

\* The identifiers of the batches: the email and the phone number of u1, the
\* uid of u2, and the empty string.
BatchIds == {Email1, Phone1, U2, <<>>}

RECURSIVE SeqsUpTo(_, _)
SeqsUpTo(S, n) ==
  IF n = 0 THEN {<<>>}
  ELSE LET shorter == SeqsUpTo(S, n - 1)
       IN  shorter \cup {Append(q, x) : q \in shorter, x \in S}

TypeOpts == [email : BOOLEAN, phoneNumber : BOOLEAN]

\* Before the prompts are answered, and before the record is written.
NoAnswers == [f \in {} |-> FALSE]
NoRequest == <<>>

\* The state a command starts in, for a given set of command lines.
Start(idLists) ==
  /\ cmd \in Commands \cup {"update", "create"}
  /\ opts \in TypeOpts
  /\ ids \in idLists
  /\ pc = "start"
  /\ dir = InitialDir
  /\ uidReqs = <<>>
  /\ toggleReqs = <<>>
  /\ getReqs = <<>>
  /\ tableData = <<>>
  /\ out = <<>>
  /\ exits = <<>>
  /\ calls = <<>>
  /\ tables = <<>>
  /\ answers = NoAnswers
  /\ mutReq = NoRequest
  /\ options \in [detailed : BOOLEAN, fake : {<<>>}]
  /\ createReqs = <<>>
  /\ (options.detailed => cmd = "get")

NoFlags == [email |-> FALSE, phoneNumber |-> FALSE]

\* Command lines of up to MaxIds identifiers; the force flags are combined
\* with the shorter ones.
Init ==
  /\ Start(SeqsUpTo(BatchIds, MaxIds) \ {<<>>})
  /\ cmd \in Commands
  /\ (opts = NoFlags \/ Len(ids) < MaxIds)

(***************************************************************************)
(* Console texts, per command.                                             *)
(***************************************************************************)
SuccessText(c) ==
  CASE c = "revoke"  -> "Revoked refresh tokens for user %s."
    [] c = "disable" -> "Disabled user %s."
    [] c = "enable"  -> "Enabled user %s."
    [] c = "delete"  -> "Deleted user %s."

FailureText(c) ==
  CASE c = "revoke"  -> "Couldn't revoke refresh tokens for user %s: %s"
    [] c = "disable" -> "Couldn't disable user %s: %s"
    [] c = "enable"  -> "Couldn't enable user %s: %s"
    [] c = "delete"  -> "Couldn't delete user %s: %s"

\* What the success line of command c names: disable and enable print the
\* presentable name of the returned record, revoke and delete the uid.
SuccessArg(c, u, user) ==
  IF c \in {"disable", "enable"} THEN presentableName(user) ELSE u

(***************************************************************************)
(* The remote mutations: toggleUserAccess, deleteUser, revokeUser.         *)
(***************************************************************************)
Present(d, u) == u \in DOMAIN d /\ d[u].present

\* A call on the directory service: the method, the uid or identifier it is
\* made with, and the properties sent with it.
NoProps == [f \in {} |-> FALSE]

DirectoryCall(method, arg, props) ==
  [method |-> method, arg |-> arg, props |-> props]

\* A toggle that also sends emailVerified.
toggleUserAccess_AlsoVerifies(uid, disabled) ==
  DirectoryCall("updateUser", uid,
                [disabled |-> disabled, emailVerified |-> FALSE])

\* auth.updateUser(uid, { disabled })
toggleUserAccess(uid, disabled) ==
  DirectoryCall("updateUser", uid, [disabled |-> disabled])

\* auth.deleteUser(uid)
deleteUser(uid) == DirectoryCall("deleteUser", uid, NoProps)

\* auth.revokeRefreshTokens(uid)
revokeUser(uid) == DirectoryCall("revokeRefreshTokens", uid, NoProps)

\* The call the second stage of command c makes for uid u.
ActionCall(c, u) ==
  CASE c = "disable" -> toggleUserAccess(u, TRUE)
    [] c = "enable"  -> toggleUserAccess(u, FALSE)
    [] c = "delete"  -> deleteUser(u)
    [] c = "revoke"  -> revokeUser(u)

\* The record rec after an update with properties props: the properties
\* sent replace the fields of their names, the others are kept.
UpdateApplied(rec, props) ==
  [f \in DOMAIN rec |-> IF f \in DOMAIN props THEN props[f] ELSE rec[f]]

\* A deletion that removes every record of the directory.
Mutated_Sweep(d, c, u) ==
  [v \in DOMAIN d |-> [d[v] EXCEPT !.present = (c # "delete")]]

\* The directory after the mutation of command c on uid u has succeeded.
Mutated(d, c, u) ==
  LET call == ActionCall(c, u)
  IN  CASE call.method = "updateUser" ->
             [d EXCEPT ![u] = UpdateApplied(d[u], call.props)]
        [] call.method = "deleteUser" -> [d EXCEPT ![u].present = FALSE]
        [] call.method = "revokeRefreshTokens" -> [d EXCEPT ![u].revoked = TRUE]

\* The calls behind the promises reqs, in order: those of the first stage
\* that look a record up, and those of the second stage.
RECURSIVE LookupCalls(_, _)
LookupCalls(reqs, i) ==
  IF i > Len(reqs) THEN <<>>
  ELSE IF reqs[i].lookup = "none" THEN LookupCalls(reqs, i + 1)
  ELSE <<DirectoryCall(reqs[i].lookup, reqs[i].arg, NoProps)>>
         \o LookupCalls(reqs, i + 1)

ActionCalls(c, reqs) == [j \in DOMAIN reqs |-> ActionCall(c, reqs[j].uid)]

\* The promise auth.js returns around a remote mutation that is in flight;
\* src is the position of the identifier in ids (not kept by the program).
RemoteAction(u, i) ==
  [uid |-> u, src |-> i, call |-> "pending", st |-> "pending",
   hasValue |-> FALSE, reason |-> ""]

\* A directory service that rejects a disable of a disabled record.
ActionSettled_NotIdempotent(req, d, net) ==
  IF net /\ Present(d, req.uid) /\ ~(cmd = "disable" /\ d[req.uid].disabled)
  THEN [req EXCEPT !.call = "ok", !.st = "fulfilled", !.hasValue = TRUE]
  ELSE [req EXCEPT !.call = "failed", !.st = "rejected",
                   !.reason = FailureReason(net)]

\* The then/catch of auth.js once the mutation has settled.
ActionSettled(req, d, net) ==
  IF net /\ Present(d, req.uid)
  THEN [req EXCEPT !.call = "ok", !.st = "fulfilled", !.hasValue = TRUE]
  ELSE [req EXCEPT !.call = "failed", !.st = "rejected",
                   !.reason = FailureReason(net)]

\* A second stage that calls the action twice for every uid.
RECURSIVE ToggleRequests_Twice(_, _)
ToggleRequests_Twice(uids, i) ==
  IF i > Len(uids) THEN <<>>
  ELSE IF Falsy(uids[i]) THEN ToggleRequests_Twice(uids, i + 1)
  ELSE <<RemoteAction(uids[i].v, i), RemoteAction(uids[i].v, i)>>
         \o ToggleRequests_Twice(uids, i + 1)

\* uids.forEach: one action call per truthy uid, in order.
RECURSIVE ToggleRequests(_, _)
ToggleRequests(uids, i) ==
  IF i > Len(uids) THEN <<>>
  ELSE IF Falsy(uids[i]) THEN ToggleRequests(uids, i + 1)
  ELSE <<RemoteAction(uids[i].v, i)>> \o ToggleRequests(uids, i + 1)

\* A row that never has the detailed fields.
userData_NeverDetailed(user, detailed) ==
  [uid |-> user.uid, email |-> user.email,
   emailVerified |-> user.emailVerified, displayName |-> user.displayName,
   phoneNumber |-> user.phoneNumber, disabled |-> user.disabled]

\* The row of a user: six fields, and three more with --detailed.
userData(user, detailed) ==
  LET row == [uid |-> user.uid, email |-> user.email,
              emailVerified |-> user.emailVerified,
              displayName |-> user.displayName,
              phoneNumber |-> user.phoneNumber, disabled |-> user.disabled]
  IN  IF detailed
      THEN [uid |-> row.uid, email |-> row.email,
            emailVerified |-> row.emailVerified,
            displayName |-> row.displayName,
            phoneNumber |-> row.phoneNumber, disabled |-> row.disabled,
            customClaims |-> user.customClaims,
            creationTime |-> user.metadata.creationTime,
            lastSignInTime |-> user.metadata.lastSignInTime]
      ELSE row

\* A table whose rows are pushed last user first.
RECURSIVE TableRows_Reversed(_, _)
TableRows_Reversed(users, i) ==
  IF i > Len(users) THEN <<>>
  ELSE IF ~users[i].hasValue THEN TableRows_Reversed(users, i + 1)
  ELSE TableRows_Reversed(users, i + 1)
         \o <<userData(users[i].user, options.detailed)>>

\* users.forEach: one row per truthy user, in order.
RECURSIVE TableRows(_, _)
TableRows(users, i) ==
  IF i > Len(users) THEN <<>>
  ELSE IF ~users[i].hasValue THEN TableRows(users, i + 1)
  ELSE <<userData(users[i].user, options.detailed)>> \o TableRows(users, i + 1)

(***************************************************************************)
(* error(message) and success(message): print the message, if any, and     *)
(* exit.                                                                   *)
(***************************************************************************)
NoMessage == <<>>

\* An error that prints the message and exits with status 0.
error_StatusZero(message) ==
  /\ out' = out \o message
  /\ exits' = Append(exits, 0)
  /\ pc' = "exited"

error(message) ==
  /\ out' = out \o message
  /\ exits' = Append(exits, 1)
  /\ pc' = "exited"

success(message) ==
  /\ out' = out \o message
  /\ exits' = Append(exits, 0)
  /\ pc' = "exited"

\* reason.message of the first rejected promise of reqs.
RejectionMessage(reqs) ==
  LET i == CHOOSE k \in DOMAIN reqs :
             /\ reqs[k].st = "rejected"
             /\ \A j \in DOMAIN reqs : reqs[j].st = "rejected" => k <= j
  IN  <<Line(reqs[i].reason, <<>>, "")>>

(***************************************************************************)
(* The steps of a batch command.                                           *)
(***************************************************************************)
\* ids.forEach: every lookup is issued before any is awaited.
Dispatch ==
  /\ pc = "start"
  /\ cmd \in Commands
  /\ pc' = "resolving"
  /\ uidReqs' = IF cmd \in Mutating
                THEN [i \in 1..Len(ids) |-> getUidById(ids[i], opts)]
                ELSE uidReqs
  /\ getReqs' = IF cmd = "get"
                THEN [i \in 1..Len(ids) |-> getUserById(ids[i], opts)]
                ELSE getReqs
  /\ calls' = calls \o LookupCalls(IF cmd = "get" THEN getReqs' ELSE uidReqs', 1)
  /\ UNCHANGED <<cmd, opts, ids, dir, toggleReqs, tableData, out, exits,
               tables, answers, mutReq, options,
               createReqs>>

\* The lookup of the i-th identifier settles; its catch handler runs.
ResolveSettle(i) ==
  /\ pc = "resolving"
  /\ i \in DOMAIN uidReqs
  /\ uidReqs[i].call = "pending"
  /\ \E net \in BOOLEAN :
       LET p == LookupSettled(uidReqs[i], dir, net)
           c == Catch(p, Line("Couldn't fetch UID for ID %s: %s", ids[i], p.reason))
       IN  /\ uidReqs' = [uidReqs EXCEPT ![i] = c.p]
           /\ out' = out \o c.lines
  /\ UNCHANGED <<cmd, opts, ids, pc, dir, toggleReqs, getReqs, tableData, exits,
               calls, tables, answers, mutReq, options,
               createReqs>>

\* A second stage that starts as soon as one lookup has been fulfilled.
AllResolved_NoBarrier ==
  /\ pc = "resolving"
  /\ cmd \in Mutating
  /\ \E i \in DOMAIN uidReqs : uidReqs[i].st = "fulfilled"
  /\ toggleReqs' = ToggleRequests(uidReqs, 1)
  /\ calls' = calls \o ActionCalls(cmd, toggleReqs')
  /\ pc' = "acting"
  /\ UNCHANGED <<cmd, opts, ids, dir, uidReqs, getReqs, tableData, out, exits,
               tables, answers, mutReq, options,
               createReqs>>

\* Promise.all(uidReqs).then(...).catch(...): the action calls are issued.
AllResolved ==
  /\ pc = "resolving"
  /\ cmd \in Mutating
  /\ PromiseAll(uidReqs) # "pending"
  /\ IF PromiseAll(uidReqs) = "fulfilled"
     THEN /\ toggleReqs' = ToggleRequests(uidReqs, 1)
          /\ calls' = calls \o ActionCalls(cmd, toggleReqs')
          /\ pc' = "acting"
          /\ UNCHANGED <<out, exits>>
     ELSE /\ error(RejectionMessage(uidReqs))
          /\ UNCHANGED <<toggleReqs, calls>>
  /\ UNCHANGED <<cmd, opts, ids, dir, uidReqs, getReqs, tableData,
               tables, answers, mutReq, options,
               createReqs>>

\* The action call of the j-th request settles; its then or catch handler runs.
ActionSettle(j) ==
  /\ pc = "acting"
  /\ j \in DOMAIN toggleReqs
  /\ toggleReqs[j].call = "pending"
  /\ \E net \in BOOLEAN :
       LET req == toggleReqs[j]
           p == ActionSettled(req, dir, net)
           d == IF p.call = "ok" THEN Mutated(dir, cmd, req.uid) ELSE dir
           user == IF p.call = "ok" /\ cmd # "delete"
                   THEN UserRecord(d, req.uid) ELSE NoUser
           t == Then(p, Line(SuccessText(cmd), SuccessArg(cmd, req.uid, user), ""))
           c == Catch(t.p, Line(FailureText(cmd), req.uid, p.reason))
       IN  /\ toggleReqs' = [toggleReqs EXCEPT ![j] = c.p]
           /\ dir' = d
           /\ out' = out \o t.lines \o c.lines
  /\ UNCHANGED <<cmd, opts, ids, pc, uidReqs, getReqs, tableData, exits,
               calls, tables, answers, mutReq, options,
               createReqs>>

\* An exit status that counts the failed items.
AllActed_FailOnItemFailure ==
  /\ pc = "acting"
  /\ PromiseAll(toggleReqs) # "pending"
  /\ IF /\ PromiseAll(toggleReqs) = "fulfilled"
        /\ \A j \in DOMAIN toggleReqs : toggleReqs[j].call = "ok"
        /\ \A i \in DOMAIN uidReqs : uidReqs[i].call # "failed"
     THEN success(NoMessage)
     ELSE error(NoMessage)
  /\ UNCHANGED <<cmd, opts, ids, dir, uidReqs, toggleReqs, getReqs, tableData,
               calls, tables, answers, mutReq, options,
               createReqs>>

\* Promise.all(toggleReqs).then(success).catch(error)
AllActed ==
  /\ pc = "acting"
  /\ PromiseAll(toggleReqs) # "pending"
  /\ IF PromiseAll(toggleReqs) = "fulfilled"
     THEN success(NoMessage)
     ELSE error(RejectionMessage(toggleReqs))
  /\ UNCHANGED <<cmd, opts, ids, dir, uidReqs, toggleReqs, getReqs, tableData,
               calls, tables, answers, mutReq, options,
               createReqs>>

\* The lookup of the i-th identifier of get settles; its catch handler runs.
GetSettle(i) ==
  /\ pc = "resolving"
  /\ cmd = "get"
  /\ i \in DOMAIN getReqs
  /\ getReqs[i].call = "pending"
  /\ \E net \in BOOLEAN :
       LET p == LookupSettled(getReqs[i], dir, net)
           c == Catch(p, Line("Couldn't fetch user for ID %s: %s", ids[i], p.reason))
       IN  /\ getReqs' = [getReqs EXCEPT ![i] = c.p]
           /\ out' = out \o c.lines
  /\ UNCHANGED <<cmd, opts, ids, pc, dir, uidReqs, toggleReqs, tableData, exits,
               calls, tables, answers, mutReq, options,
               createReqs>>

\* Promise.all(getReqs).then(...).catch(...): the table is printed.
AllFetched ==
  /\ pc = "resolving"
  /\ cmd = "get"
  /\ PromiseAll(getReqs) # "pending"
  /\ IF PromiseAll(getReqs) = "fulfilled"
     THEN /\ tableData' = TableRows(getReqs, 1)
          /\ tables' = IF Len(tableData') > 0
                       THEN Append(tables, tableData') ELSE tables
          /\ success(NoMessage)
     ELSE /\ error(RejectionMessage(getReqs))
          /\ UNCHANGED <<tableData, tables>>
  /\ UNCHANGED <<cmd, opts, ids, dir, uidReqs, toggleReqs, getReqs,
               calls, answers, mutReq, options,
               createReqs>>

Next ==
  \/ Dispatch
  \/ \E i \in 1..(MaxIds + 1) : ResolveSettle(i)
  \/ AllResolved
  \/ \E j \in 1..(MaxIds + 1) : ActionSettle(j)
  \/ AllActed
  \/ \E i \in 1..(MaxIds + 1) : GetSettle(i)
  \/ AllFetched

Spec == Init /\ [][Next]_vars

(***************************************************************************)
(* Command lines with one identifier, drawn from strings around the two    *)
(* shapes: local parts and domains of emails, the optional parts of phone  *)
(* numbers, several lines, and strings of neither shape.                   *)
(***************************************************************************)
LocalParts ==
  {<<"a">>, <<"a", ".", "b">>, <<"a", ".">>, <<"\"", "a", " ", "@", "\"">>,
   <<"a", "<">>, <<>>}

DomainParts ==
  {<<"b", ".", "c", "c">>, <<"b", ".", "c">>, <<"b", ".", "c", ".", "a", "b">>,
   <<"b", "c">>, <<"b", ".", ".", "c", "c">>}

EmailLike == {l \o <<"@">> \o d : l \in LocalParts, d \in DomainParts}

PhoneLike ==
  {plus \o open \o <<"1", "2", "3">> \o close \o sep1 \o <<"4", "5", "6">>
        \o sep2 \o tail :
     plus \in {<<>>, <<"+">>},
     open \in {<<>>, <<"(">>},
     close \in {<<>>, <<")">>},
     sep1 \in {<<>>, <<"-">>, <<" ">>, <<"\n">>, <<"/">>},
     sep2 \in {<<>>, <<".">>, <<"-", "-">>},
     tail \in {<<"7", "8", "9">>, <<"7", "8", "9", "0">>,
               <<"7", "8", "9", "0", "1", "2">>,
               <<"7", "8", "9", "0", "1", "2", "3">>}}

SeveralLines ==
  {<<"x", "\n">> \o Phone2, Phone2 \o <<"\n", "x">>, <<"x">> \o Phone2,
   Email1 \o <<"\n">>, <<"x", "\n">> \o Email1, Email1 \o <<"\n">> \o Phone2,
   <<"\n">>}

NeitherShape == {<<>>, U1, U2, <<"a", "@", "b">>, <<"1", "2", "3">>, <<"@">>}

ClassifyIds ==
  EmailLike \cup PhoneLike \cup SeveralLines \cup NeitherShape \cup {Email1, Phone1}

InitClassify == Start({<<s>> : s \in ClassifyIds}) /\ cmd \in Commands

SpecClassify == InitClassify /\ [][Next]_vars

(***************************************************************************)
(* Specifications with fairness.  The event loop runs every callback that  *)
(* is ready, and FairSpec assumes that every remote call settles.          *)
(* SlowSpec assumes it of every call but the lookup of the first           *)
(* identifier, which may never settle.                                     *)
(***************************************************************************)
\* The command lines without force flags: the flags choose the lookup of an
\* identifier, not the order of the steps.
InitFair == Init /\ opts = NoFlags

FairSpec == InitFair /\ [][Next]_vars /\ WF_vars(Next)

NextButSlow ==
  \/ Dispatch
  \/ \E i \in 2..(MaxIds + 1) : ResolveSettle(i)
  \/ AllResolved
  \/ \E j \in 1..(MaxIds + 1) : ActionSettle(j)
  \/ AllActed
  \/ \E i \in 2..(MaxIds + 1) : GetSettle(i)
  \/ AllFetched

SlowSpec == Init /\ [][Next]_vars /\ WF_vars(NextButSlow)

(***************************************************************************)
(* Notions the properties are stated with.                                 *)
(***************************************************************************)
\* The action requests issued for the i-th identifier.
ActionOf(i) == {j \in DOMAIN toggleReqs : toggleReqs[j].src = i}

\* The state of the i-th identifier of revoke/disable/enable/delete.
ItemState(i) ==
  IF pc = "start" THEN "Pending"
  ELSE IF uidReqs[i].call = "pending" THEN "Resolving"
  ELSE IF uidReqs[i].call = "failed" THEN "ResolutionFailed"
  ELSE IF ActionOf(i) = {} THEN "Resolved"
  ELSE LET a == toggleReqs[CHOOSE j \in ActionOf(i) : TRUE]
       IN  CASE a.call = "pending" -> "Acting"
             [] a.call = "ok"      -> "Done"
             [] a.call = "failed"  -> "ActionFailed"

Terminal == {"Done", "ActionFailed", "ResolutionFailed"}

\* How often line l was printed.
CountLines(l) == Cardinality({k \in DOMAIN out : out[k] = l})

\* The success line of the current command for uid u.
SuccessLine(u) ==
  Line(SuccessText(cmd),
       SuccessArg(cmd, u, IF u \in Uids THEN UserRecord(dir, u) ELSE NoUser), "")

\* The mutation of command c is in effect on uid u.
Effected(d, c, u) ==
  CASE c = "disable" -> d[u].disabled
    [] c = "enable"  -> ~d[u].disabled
    [] c = "delete"  -> ~d[u].present
    [] c = "revoke"  -> d[u].revoked

\* The requests of the first stage of the current command.
LookupReqs == IF cmd = "get" THEN getReqs ELSE uidReqs

KindOf(req) ==
  CASE req.lookup = "getUserByEmail"       -> "Email"
    [] req.lookup = "getUserByPhoneNumber" -> "Phone"
    [] OTHER                               -> "Opaque"

\* An Opaque identifier is used verbatim: getUidById resolves to it without a
\* remote call, getUserById looks it up by id.
Verbatim(req, id) ==
  /\ req.arg = id
  /\ cmd = "get" => req.lookup = "getUser"
  /\ cmd # "get" => req.lookup = "none" /\ req.hasValue /\ req.v = id

\* An Email or Phone identifier is looked up as given.
LookedUp(req, id) == req.arg = id /\ req.lookup # "none"

(***************************************************************************)
(* Properties of the batch commands.                                       *)
(***************************************************************************)
\* C1: when revoke/disable/enable/delete has exited, no action call was cut
\* short by the failure of a sibling: every identifier that resolved to a
\* non-empty uid had its action invoked once, every action call has settled,
\* and every action call that succeeded has its success line printed and its
\* effect in the directory.
C1_ActionFailureIsolated ==
  (pc = "exited" /\ cmd \in Mutating) =>
    /\ \A i \in DOMAIN uidReqs :
         ~Falsy(uidReqs[i]) => Cardinality(ActionOf(i)) = 1
    /\ \A j \in DOMAIN toggleReqs :
         /\ toggleReqs[j].call \in {"ok", "failed"}
         /\ toggleReqs[j].call = "ok" =>
              /\ Effected(dir, cmd, toggleReqs[j].uid)
              /\ CountLines(SuccessLine(toggleReqs[j].uid)) =
                   Cardinality({k \in DOMAIN toggleReqs :
                                  /\ toggleReqs[k].uid = toggleReqs[j].uid
                                  /\ toggleReqs[k].call = "ok"})

\* C1 witness: a batch of three has exited with one action failed and the two
\* others Done.
C1_Witness ==
  /\ pc = "exited"
  /\ cmd \in Mutating
  /\ Len(ids) = 3
  /\ \E i, j, k \in DOMAIN ids :
       /\ i # j /\ j # k /\ i # k
       /\ ItemState(i) = "ActionFailed"
       /\ ItemState(j) = "Done"
       /\ ItemState(k) = "Done"

\* C2 (as claimed): once the action stage has begun there are N outcomes, the k
\* identifiers whose resolution call failed are marked failed, and the action
\* is invoked for the remaining N-k.
C2_Original ==
  (cmd \in Mutating /\ pc \in {"acting", "exited"}) =>
    LET N == Len(ids)
        failed == {i \in DOMAIN uidReqs : uidReqs[i].call = "failed"}
        marked == {i \in DOMAIN uidReqs : ItemState(i) = "ResolutionFailed"}
    IN  /\ Len(uidReqs) = N
        /\ marked = failed
        /\ Len(toggleReqs) = N - Cardinality(failed)
        /\ \A i \in DOMAIN uidReqs : i \notin failed => ActionOf(i) # {}

\* C3: a batch command that exits, exits once and with status 0, whatever the
\* number of identifiers whose lookup or action failed.
C3_ExitZero == pc = "exited" => exits = <<0>>

\* C3 witness: a batch has exited in which every identifier failed, one at the
\* lookup and one at the action.
C3_Witness ==
  /\ pc = "exited"
  /\ cmd \in Mutating
  /\ \A i \in DOMAIN ids : ItemState(i) \in {"ResolutionFailed", "ActionFailed"}
  /\ \E i, j \in DOMAIN ids :
       ItemState(i) = "ResolutionFailed" /\ ItemState(j) = "ActionFailed"

\* C9 as stated: when revoke/disable/enable/delete exit, every lookup call
\* and every action call that was issued has settled and every identifier
\* of the batch is in a terminal state.  Violated by an empty identifier,
\* which is resolved without a call and then skipped: it is still Resolved
\* when the process exits.
C9_Original ==
  (pc = "exited" /\ cmd \in Mutating) =>
    /\ Len(uidReqs) = Len(ids)
    /\ \A i \in DOMAIN uidReqs : uidReqs[i].call # "pending"
    /\ \A j \in DOMAIN toggleReqs : toggleReqs[j].call # "pending"
    /\ \A i \in DOMAIN ids : ItemState(i) \in Terminal

(***************************************************************************)
(* Properties of the classification, on the lookups getUidById and         *)
(* getUserById issue at Dispatch.                                          *)
(***************************************************************************)
\* C4: for every identifier and every setting of the two force flags the
\* lookup issued is by email if the email flag is set or the identifier is
\* email-shaped, otherwise by phone number if the phone flag is set or the
\* identifier is phone-shaped, otherwise the identifier serves as the uid.
C4_Precedence ==
  \A i \in DOMAIN LookupReqs :
    LET req == LookupReqs[i]
        id  == ids[i]
    IN  IF opts.email \/ isEmail(id)
        THEN KindOf(req) = "Email" /\ LookedUp(req, id)
        ELSE IF opts.phoneNumber \/ isPhoneNumber(id)
        THEN KindOf(req) = "Phone" /\ LookedUp(req, id)
        ELSE KindOf(req) = "Opaque" /\ Verbatim(req, id)

\* C4 witness: with both force flags set, a phone-shaped identifier has been
\* dispatched and is looked up by email.
C4_Witness ==
  /\ pc # "start"
  /\ opts.email /\ opts.phoneNumber
  /\ \E i \in DOMAIN LookupReqs :
       /\ isPhoneNumber(ids[i])
       /\ LookupReqs[i].lookup = "getUserByEmail"

\* C5 (as claimed): an email-shaped identifier is classified Email unless the
\* phone flag is set, and Phone when it is.
C5_Original ==
  \A i \in DOMAIN LookupReqs :
    isEmail(ids[i]) =>
      KindOf(LookupReqs[i]) = IF opts.phoneNumber THEN "Phone" ELSE "Email"

\* C6 (as claimed): an identifier that is phone-shaped and not email-shaped is
\* classified Phone for every setting of the force flags.
C6_Original ==
  \A i \in DOMAIN LookupReqs :
    (isPhoneNumber(ids[i]) /\ ~isEmail(ids[i])) =>
      KindOf(LookupReqs[i]) = "Phone"

\* C6 (amended): an identifier that is phone-shaped and not email-shaped is
\* looked up by phone number unless the email flag is set, and by email when
\* it is.
C6_PhoneShapeUnlessEmailForced ==
  \A i \in DOMAIN LookupReqs :
    (isPhoneNumber(ids[i]) /\ ~isEmail(ids[i])) =>
      /\ KindOf(LookupReqs[i]) = IF opts.email THEN "Email" ELSE "Phone"
      /\ LookedUp(LookupReqs[i], ids[i])

\* C6 witness: a phone-shaped identifier has been dispatched under the email
\* flag and is looked up by email.
C6_Witness ==
  /\ pc # "start"
  /\ opts.email
  /\ ~opts.phoneNumber
  /\ \E i \in DOMAIN LookupReqs :
       /\ isPhoneNumber(ids[i])
       /\ ~isEmail(ids[i])
       /\ KindOf(LookupReqs[i]) = "Email"

\* C7 (as claimed): an identifier of neither shape is classified Opaque and
\* used verbatim for every setting of the force flags.
C7_Original ==
  \A i \in DOMAIN LookupReqs :
    (~isEmail(ids[i]) /\ ~isPhoneNumber(ids[i])) =>
      KindOf(LookupReqs[i]) = "Opaque" /\ Verbatim(LookupReqs[i], ids[i])

\* C7 (amended): an identifier of neither shape is classified Opaque and used
\* verbatim when no force flag is set; under the email flag it is looked up by
\* email, and otherwise under the phone flag by phone number.
C7_OpaqueUnlessForced ==
  \A i \in DOMAIN LookupReqs :
    (~isEmail(ids[i]) /\ ~isPhoneNumber(ids[i])) =>
      IF opts.email
      THEN KindOf(LookupReqs[i]) = "Email" /\ LookedUp(LookupReqs[i], ids[i])
      ELSE IF opts.phoneNumber
      THEN KindOf(LookupReqs[i]) = "Phone" /\ LookedUp(LookupReqs[i], ids[i])
      ELSE KindOf(LookupReqs[i]) = "Opaque" /\ Verbatim(LookupReqs[i], ids[i])

\* C7 witness: an identifier of neither shape has been dispatched by a
\* mutating command without force flags and resolved to itself.
C7_Witness ==
  /\ pc # "start"
  /\ cmd \in Mutating
  /\ ~opts.email /\ ~opts.phoneNumber
  /\ \E i \in DOMAIN uidReqs :
       /\ ~isEmail(ids[i]) /\ ~isPhoneNumber(ids[i])
       /\ ids[i] # <<>>
       /\ uidReqs[i].lookup = "none"
       /\ uidReqs[i].v = ids[i]

(***************************************************************************)
(* Properties of the scheduling of the batch commands.                     *)
(***************************************************************************)
\* C8 (as claimed): if the lookup of the first identifier never settles, every
\* other (non-empty) identifier of revoke/disable/enable/delete still reaches
\* Done, ActionFailed or ResolutionFailed.
C8_Original ==
  \A i \in 2..MaxIds :
    <>(\/ cmd \notin Mutating
       \/ i > Len(ids)
       \/ ids[i] = <<>>
       \/ (pc # "start" /\ uidReqs[1].call # "pending")
       \/ (pc # "start" /\ ItemState(i) \in Terminal))

\* C8 (amended): a failing identifier does not block its siblings, a slow one
\* does.  While the lookup of any identifier is unsettled no action call has
\* been issued and the process has not exited; once all lookups have settled,
\* the action is invoked for every identifier that resolved to a non-empty
\* uid, whatever happened to its siblings.
C8_BarrierThenAllInvoked ==
  cmd \in Mutating =>
    /\ (\E i \in DOMAIN uidReqs : uidReqs[i].call = "pending") =>
         toggleReqs = <<>> /\ exits = <<>>
    /\ pc \in {"acting", "exited"} =>
         \A i \in DOMAIN uidReqs : ~Falsy(uidReqs[i]) => ActionOf(i) # {}

\* C8 witness: the lookup of the first identifier is unsettled, a sibling has
\* resolved, another has failed, and no action call has been issued.
C8_Witness ==
  /\ cmd \in Mutating
  /\ pc = "resolving"
  /\ uidReqs[1].call = "pending"
  /\ \E i, j \in DOMAIN uidReqs :
       /\ ItemState(i) = "Resolved"
       /\ ItemState(j) = "ResolutionFailed"
  /\ toggleReqs = <<>>

\* C10: if every remote call settles, the command eventually exits, and with
\* status 0.
C10_EventuallyExitsZero == <>(pc = "exited" /\ exits = <<0>>)

\* C10 witness: delete has exited with status 0 after a lookup and an action
\* failed.
C10_Witness ==
  /\ cmd = "delete"
  /\ pc = "exited"
  /\ exits = <<0>>
  /\ \E i, j \in DOMAIN ids :
       ItemState(i) = "ResolutionFailed" /\ ItemState(j) = "ActionFailed"

(***************************************************************************)
(* update <id>: one lookup, the prompts, one auth.updateUser.               *)
(***************************************************************************)
BoolFields == {"emailVerified", "disabled"}

\* The truthiness of the value v of field f: of a boolean, the boolean; of
\* a string, that it is not empty.
Truthy(f, v) == IF f \in BoolFields THEN v ELSE v # <<>>

\* newUser.f || undefined, for the fields F: the properties that are sent.
\* A property that is undefined is not sent.
Forwarded(newUser, F) ==
  [f \in {g \in F \cap DOMAIN newUser : Truthy(g, newUser[g])} |-> newUser[f]]

UpdateFields ==
  {"email", "emailVerified", "displayName", "phoneNumber", "photoURL", "disabled"}

\* auth.updateUser(uid, { email, emailVerified, ... })
updateUser(uid, newUser) ==
  DirectoryCall("updateUser", uid, Forwarded(newUser, UpdateFields))

\* The answer of an input prompt: what was typed, or the default when
\* nothing was typed (the empty string when there is no default).
InputAnswer(default, typed) == IF typed = <<>> THEN default ELSE typed

Email2 == <<"c", "@", "b", ".", "c", "c">>

\* What the operator may type at the input prompts.
TypedEmails == {<<>>, Email2}
TypedNames == {<<>>, <<"y">>}

\* The answers inquirer can hand over for the prompts of update on user.
UpdateAnswers(user) ==
  {[email |-> InputAnswer(user.email, e), emailVerified |-> v,
    displayName |-> InputAnswer(user.displayName, n),
    phoneNumber |-> InputAnswer(user.phoneNumber, <<>>),
    photoURL |-> InputAnswer(user.photoURL, <<>>), disabled |-> b] :
     e \in TypedEmails, v \in BOOLEAN, n \in TypedNames, b \in BOOLEAN}

\* The identifiers of update: the email, the phone number and the uid of
\* u1, the uid of u2, a uid without a record, and the empty string.
UpdateIds == {Email1, Phone1, U1, U2, U3, <<>>}

InitUpdate == Start({<<id>> : id \in UpdateIds}) /\ cmd = "update"

\* auth.getUserById(id) is called.
UpdateLookup ==
  /\ pc = "start"
  /\ cmd = "update"
  /\ getReqs' = <<getUserById(ids[1], opts)>>
  /\ calls' = calls \o LookupCalls(getReqs', 1)
  /\ pc' = "resolving"
  /\ UNCHANGED <<cmd, opts, ids, dir, uidReqs, toggleReqs, tableData, out, exits,
                 tables, answers, mutReq, options,
               createReqs>>

\* The lookup settles: the prompts are shown, or error(reason.message).
UpdateFetched ==
  /\ pc = "resolving"
  /\ cmd = "update"
  /\ getReqs[1].call = "pending"
  /\ \E net \in BOOLEAN :
       LET p == LookupSettled(getReqs[1], dir, net)
       IN  /\ getReqs' = <<p>>
           /\ IF p.st = "fulfilled"
              THEN pc' = "prompting" /\ UNCHANGED <<out, exits>>
              ELSE error(<<Line(p.reason, <<>>, "")>>)
  /\ UNCHANGED <<cmd, opts, ids, dir, uidReqs, toggleReqs, tableData,
                 calls, tables, answers, mutReq, options,
               createReqs>>

\* The prompts are answered: auth.updateUser(user.uid, newUser) is called.
UpdateAnswered ==
  /\ pc = "prompting"
  /\ cmd = "update"
  /\ \E newUser \in UpdateAnswers(getReqs[1].user) :
       /\ answers' = newUser
       /\ mutReq' = RemoteAction(getReqs[1].user.uid, 1)
       /\ calls' = Append(calls, updateUser(getReqs[1].user.uid, newUser))
  /\ pc' = "mutating"
  /\ UNCHANGED <<cmd, opts, ids, dir, uidReqs, toggleReqs, getReqs, tableData,
                 out, exits, tables, options, createReqs>>

\* The prompt is rejected: its catch prints a line and does not exit, so
\* the process ends when nothing is left to run.
UpdatePromptRejected ==
  /\ pc = "prompting"
  /\ cmd = "update"
  /\ out' = Append(out, Line("Couldn't update user %s: %s",
                             presentableName(getReqs[1].user), "prompt-error"))
  /\ pc' = "ended"
  /\ UNCHANGED <<cmd, opts, ids, dir, uidReqs, toggleReqs, getReqs, tableData,
                 exits, calls, tables, answers, mutReq, options,
               createReqs>>

\* auth.updateUser settles: success("Updated user ...") or
\* error(reason.message).
UpdateSettled ==
  /\ pc = "mutating"
  /\ cmd = "update"
  /\ \E net \in BOOLEAN :
       LET p == ActionSettled(mutReq, dir, net)
           call == updateUser(mutReq.uid, answers)
       IN  /\ mutReq' = p
           /\ IF p.call = "ok"
              THEN /\ dir' = [dir EXCEPT ![call.arg] =
                                 UpdateApplied(dir[call.arg], call.props)]
                   /\ success(<<Line("Updated user %s.",
                                     presentableName(UserRecord(dir', call.arg)), "")>>)
              ELSE /\ dir' = dir
                   /\ error(<<Line(p.reason, <<>>, "")>>)
  /\ UNCHANGED <<cmd, opts, ids, uidReqs, toggleReqs, getReqs, tableData,
                 calls, tables, answers, options, createReqs>>

NextUpdate ==
  \/ UpdateLookup
  \/ UpdateFetched
  \/ UpdateAnswered
  \/ UpdatePromptRejected
  \/ UpdateSettled

SpecUpdate == InitUpdate /\ [][NextUpdate]_vars

(***************************************************************************)
(* create: the prompts and one auth.createUser; then get on the uid of the *)
(* record created.                                                         *)
(***************************************************************************)
CreateFields == UpdateFields \cup {"uid"}

\* A createUser that sends the answers as they are.
createUser_Verbatim(newUser) == DirectoryCall("createUser", <<>>, newUser)

\* auth.createUser({ uid, email, emailVerified, ... })
createUser(newUser) ==
  DirectoryCall("createUser", <<>>, Forwarded(newUser, CreateFields))

\* What the operator may type at the uid and password prompts: no uid, a
\* new uid, a new uid of ten digits, the uid of u1.
TypedUids == {<<>>, U3, Phone2, U1}
TypedPasswords == {<<>>, <<"p", "w">>}

\* The answers inquirer can hand over for the prompts of create.
CreateAnswers ==
  {[uid |-> u, email |-> e, emailVerified |-> v, password |-> w,
    displayName |-> n, photoURL |-> <<>>, disabled |-> b] :
     u \in TypedUids, e \in TypedEmails, v \in BOOLEAN,
     w \in TypedPasswords, n \in TypedNames, b \in BOOLEAN}

InitCreate == Start({<<>>}) /\ cmd = "create" /\ opts = NoFlags

\* The uid of the record a createUser call with properties props makes.
CreatedUid(props) == IF "uid" \in DOMAIN props THEN props.uid ELSE GenUid

\* The record the service makes of the properties of a createUser call.
Created(props) ==
  UpdateApplied([Absent EXCEPT !.present = TRUE, !.creationTime = <<"t", "9">>],
                props)

\* Why the service rejects a createUser call with properties props, or ""
\* if it does not.
CreateRejection(d, props, net) ==
  IF ~net THEN "network-error"
  ELSE IF Present(d, CreatedUid(props)) THEN "auth/uid-already-exists"
  ELSE IF /\ "email" \in DOMAIN props
          /\ \E u \in DOMAIN d : d[u].present /\ d[u].email = props.email
       THEN "auth/email-already-exists"
  ELSE ""

\* inquirer.prompt is called.
CreatePrompt ==
  /\ pc = "start"
  /\ cmd = "create"
  /\ options.fake = <<>>
  /\ pc' = "prompting"
  /\ UNCHANGED <<cmd, opts, ids, dir, uidReqs, toggleReqs, getReqs, tableData,
                 out, exits, calls, tables, answers, mutReq, options,
               createReqs>>

\* The prompts are answered: auth.createUser(newUser) is called.
CreateAnswered ==
  /\ pc = "prompting"
  /\ cmd = "create"
  /\ \E newUser \in CreateAnswers :
       /\ answers' = newUser
       /\ calls' = Append(calls, createUser(newUser))
  /\ mutReq' = RemoteAction(<<>>, 1)
  /\ pc' = "mutating"
  /\ UNCHANGED <<cmd, opts, ids, dir, uidReqs, toggleReqs, getReqs, tableData,
                 out, exits, tables, options, createReqs>>

\* The prompt is rejected: its catch evaluates presentableName(user) with
\* no user in scope and throws before anything is printed; the process
\* ends without a call of exit.
CreatePromptRejected ==
  /\ pc = "prompting"
  /\ cmd = "create"
  /\ pc' = "ended"
  /\ UNCHANGED <<cmd, opts, ids, dir, uidReqs, toggleReqs, getReqs, tableData,
                 out, exits, calls, tables, answers, mutReq, options,
               createReqs>>

\* auth.createUser settles: success("Created user ...") or
\* error(reason.message).
CreateSettled ==
  /\ pc = "mutating"
  /\ cmd = "create"
  /\ \E net \in BOOLEAN :
       LET props == createUser(answers).props
           uid == CreatedUid(props)
           why == CreateRejection(dir, props, net)
       IN  IF why = ""
           THEN /\ mutReq' = [mutReq EXCEPT !.uid = uid, !.call = "ok",
                                            !.st = "fulfilled", !.hasValue = TRUE]
                /\ dir' = [dir EXCEPT ![uid] = Created(props)]
                /\ success(<<Line("Created user %s.",
                                  presentableName(UserRecord(dir', uid)), "")>>)
           ELSE /\ mutReq' = [mutReq EXCEPT !.call = "failed", !.st = "rejected",
                                            !.reason = why]
                /\ dir' = dir
                /\ error(<<Line(why, <<>>, "")>>)
  /\ UNCHANGED <<cmd, opts, ids, uidReqs, toggleReqs, getReqs, tableData,
                 calls, tables, answers, options, createReqs>>

\* After create has exited with status 0 the operator runs get on the uid
\* of the record created.
GetCreated ==
  /\ pc = "exited"
  /\ cmd = "create"
  /\ exits = <<0>>
  /\ cmd' = "get"
  /\ ids' = <<mutReq.uid>>
  /\ pc' = "start"
  /\ UNCHANGED <<opts, dir, uidReqs, toggleReqs, getReqs, tableData, out, exits,
                 calls, tables, answers, mutReq, options,
               createReqs>>

NextCreate ==
  \/ CreatePrompt
  \/ CreateAnswered
  \/ CreatePromptRejected
  \/ CreateSettled
  \/ GetCreated
  \/ Dispatch
  \/ GetSettle(1)
  \/ AllFetched

SpecCreate == InitCreate /\ [][NextCreate]_vars

(***************************************************************************)
(* The state machine of an identifier, and the order of the results.       *)
(***************************************************************************)
\* The moves of the state machine.  An identifier that serves as the uid is
\* resolved by getUidById without a remote call, within the step that
\* dispatches it.
Moves ==
  {<<"Pending", "Resolving">>, <<"Resolving", "ResolutionFailed">>,
   <<"Resolving", "Resolved">>, <<"Resolved", "Acting">>,
   <<"Acting", "Done">>, <<"Acting", "ActionFailed">>}

LookupMethods == {"getUserByEmail", "getUserByPhoneNumber", "getUser"}
ActionMethods == {"updateUser", "deleteUser", "revokeRefreshTokens"}

\* How many of the calls made so far are of the methods M.
CallsOf(M) == Cardinality({k \in DOMAIN calls : calls[k].method \in M})

\* A step of a batch moves every identifier along the state machine or
\* leaves it where it is.
ItemsMove ==
  cmd \in Mutating =>
    \A i \in DOMAIN ids :
      \/ ItemState(i)' = ItemState(i)
      \/ <<ItemState(i), ItemState(i)'>> \in Moves
      \/ /\ ItemState(i) = "Pending"
         /\ ItemState(i)' = "Resolved"
         /\ uidReqs'[i].lookup = "none"

\* Every promise and every call of a batch belongs to one identifier
\* occurrence, which has at most one of each.
NoRetries ==
  cmd \in Mutating =>
    /\ \A i \in DOMAIN ids : Cardinality(ActionOf(i)) <= 1
    /\ \A j \in DOMAIN toggleReqs : toggleReqs[j].src \in DOMAIN ids
    /\ Len(uidReqs) <= Len(ids)
    /\ CallsOf(LookupMethods) <= Len(uidReqs)
    /\ CallsOf(ActionMethods) = Len(toggleReqs)
    /\ Len(calls) <= 2 * Len(ids)

\* C11: every identifier of a batch moves only along Pending -> Resolving ->
\* (ResolutionFailed | Resolved -> Acting -> (Done | ActionFailed)), so Done,
\* ActionFailed and ResolutionFailed are never left; and at most one lookup
\* call and at most one action call is issued per identifier occurrence.
C11_StateMachineNoRetries == [][ItemsMove]_vars /\ []NoRetries

\* C11 witness: a batch has exited with one identifier Done, one
\* ActionFailed and one ResolutionFailed.
C11_Witness ==
  /\ cmd \in Mutating
  /\ pc = "exited"
  /\ \E i, j, k \in DOMAIN ids :
       /\ ItemState(i) = "Done"
       /\ ItemState(j) = "ActionFailed"
       /\ ItemState(k) = "ResolutionFailed"

\* The k-th smallest element of the set of positions S.
Nth(S, k) == CHOOSE i \in S : Cardinality({j \in S : j < i}) = k - 1

\* The positions of the identifiers whose lookup handed a truthy value on.
Handed(reqs) == {i \in DOMAIN reqs : ~Falsy(reqs[i])}
Fetched(reqs) == {i \in DOMAIN reqs : reqs[i].hasValue}

\* C12: whatever the order in which the lookups completed, the uids handed
\* to the second stage and the rows of the table of get are in the order of
\* the identifiers on the command line, the failed ones left out.
C12_ResultsInInputOrder ==
  /\ (cmd \in Mutating /\ pc \in {"acting", "exited"} /\ exits # <<1>>) =>
       /\ Len(toggleReqs) = Cardinality(Handed(uidReqs))
       /\ \A j \in DOMAIN toggleReqs :
            /\ toggleReqs[j].src = Nth(Handed(uidReqs), j)
            /\ toggleReqs[j].uid = uidReqs[toggleReqs[j].src].v
            /\ calls[Len(calls) - Len(toggleReqs) + j].arg = toggleReqs[j].uid
  /\ (cmd = "get" /\ pc = "exited" /\ exits = <<0>>) =>
       /\ Len(tableData) = Cardinality(Fetched(getReqs))
       /\ \A k \in DOMAIN tableData :
            tableData[k].uid = getReqs[Nth(Fetched(getReqs), k)].user.uid

\* C12 witness: get has printed the rows of two different users, the first
\* and the last of three identifiers, after the lookup of the one between
\* them had failed before the other two completed.
C12_Witness ==
  /\ cmd = "get"
  /\ pc = "exited"
  /\ Len(ids) = 3
  /\ getReqs[2].call = "failed"
  /\ Len(tableData) = 2
  /\ tableData[1].uid = U1
  /\ tableData[2].uid = U2
  /\ tables = <<tableData>>

\* C13 as stated: at exit every identifier of a batch has produced exactly
\* one line, so there are as many lines as identifiers.  Violated by an
\* empty identifier, which resolves to itself and is then skipped without
\* a line.
C13_Original ==
  (cmd \in Mutating /\ pc = "exited") =>
    /\ Len(out) = Len(ids)
    /\ \A i \in DOMAIN ids :
         \/ ItemState(i) = "ResolutionFailed"
            /\ \E k \in DOMAIN out :
                 /\ out[k].text = "Couldn't fetch UID for ID %s: %s"
                 /\ out[k].arg = ids[i]
         \/ ItemState(i) = "Done"
            /\ \E k \in DOMAIN out : out[k].text = SuccessText(cmd)
         \/ ItemState(i) = "ActionFailed"
            /\ \E k \in DOMAIN out : out[k].text = FailureText(cmd)

(***************************************************************************)
(* The lines of the failures.                                              *)
(***************************************************************************)
\* The line of the failed lookup of the i-th identifier.
LookupFailureLine(i) ==
  Line(IF cmd = "get" THEN "Couldn't fetch user for ID %s: %s"
                      ELSE "Couldn't fetch UID for ID %s: %s",
       ids[i], LookupReqs[i].reason)

\* Every failed call has been caught: its promise is fulfilled, and nothing
\* has made the process exit with status 1.
FailuresCaught ==
  /\ \A i \in DOMAIN LookupReqs :
       LookupReqs[i].call = "failed" =>
         /\ LookupReqs[i].st = "fulfilled"
         /\ LookupReqs[i].reason \in {"auth/user-not-found", "network-error"}
         /\ \E k \in DOMAIN out : out[k] = LookupFailureLine(i)
  /\ \A j \in DOMAIN toggleReqs :
       toggleReqs[j].call = "failed" => toggleReqs[j].st = "fulfilled"
  /\ exits \in {<<>>, <<0>>}

\* C14 as stated: the line of a failed action names the string the operator
\* supplied for that item.  Violated when an email or a phone number was
\* resolved to a uid: the line names the uid.
C14_Original ==
  /\ FailuresCaught
  /\ \A j \in DOMAIN toggleReqs :
       toggleReqs[j].call = "failed" =>
         \E k \in DOMAIN out :
           out[k] = Line(FailureText(cmd), ids[toggleReqs[j].src],
                         toggleReqs[j].reason)

\* C14: every failed lookup is caught and logged with the identifier the
\* operator supplied and the reason, every failed action is caught and
\* logged with the uid the identifier resolved to and the reason, and
\* neither makes the process exit with status 1.
C14_FailuresLoggedNotPropagated ==
  /\ FailuresCaught
  /\ \A j \in DOMAIN toggleReqs :
       toggleReqs[j].call = "failed" =>
         /\ toggleReqs[j].uid = uidReqs[toggleReqs[j].src].v
         /\ toggleReqs[j].reason \in {"auth/user-not-found", "network-error"}
         /\ \E k \in DOMAIN out :
              out[k] = Line(FailureText(cmd), toggleReqs[j].uid,
                            toggleReqs[j].reason)

\* C14 witness: a batch has exited after the lookup of one identifier had
\* failed and the action on the uid of another, given as an email or a
\* phone number, had failed.
C14_Witness ==
  /\ cmd \in Mutating
  /\ pc = "exited"
  /\ \E i \in DOMAIN uidReqs : uidReqs[i].call = "failed"
  /\ \E j \in DOMAIN toggleReqs :
       /\ toggleReqs[j].call = "failed"
       /\ toggleReqs[j].uid # ids[toggleReqs[j].src]

(***************************************************************************)
(* The effect of the batch commands on the directory.                      *)
(***************************************************************************)
\* The uids on which an action call of the batch has succeeded.
Acted == {toggleReqs[j].uid : j \in {k \in DOMAIN toggleReqs : toggleReqs[k].call = "ok"}}

\* C15: disable leaves disabled = TRUE and enable disabled = FALSE on every
\* record an action call of the batch succeeded on, no other field of any
\* record differs from what it was, no record outside the batch differs at
\* all, and every update sent carries the disabled field and nothing else.
C15_OnlyDisabledChanges ==
  cmd \in {"disable", "enable"} =>
    /\ \A u \in Acted : dir[u].disabled = (cmd = "disable")
    /\ \A u \in DOMAIN dir :
         /\ \A f \in DOMAIN dir[u] \ {"disabled"} : dir[u][f] = InitialDir[u][f]
         /\ u \notin Acted => dir[u] = InitialDir[u]
    /\ \A k \in DOMAIN calls :
         calls[k].method \in ActionMethods =>
           /\ calls[k].method = "updateUser"
           /\ DOMAIN calls[k].props = {"disabled"}
           /\ calls[k].props.disabled = (cmd = "disable")

\* C15 witness: enable has exited after enabling u2, which was disabled, and
\* after an action call on u1 failed.
C15_Witness ==
  /\ cmd = "enable"
  /\ pc = "exited"
  /\ InitialDir[U2].disabled
  /\ ~dir[U2].disabled
  /\ Acted = {U2}
  /\ \E j \in DOMAIN toggleReqs :
       toggleReqs[j].uid = U1 /\ toggleReqs[j].call = "failed"

\* C16: every record a delete call succeeded on is absent, and every record
\* no delete call succeeded on, in particular every record the batch does
\* not name, is present and as it was; also when two identifiers resolve
\* to the same record.
C16_DeleteRemovesOnlyNamed ==
  cmd = "delete" =>
    /\ \A u \in Acted : ~dir[u].present
    /\ \A u \in Uids \ Acted : dir[u].present
    /\ \A u \in DOMAIN dir \ Acted : dir[u] = InitialDir[u]
    /\ \A j \in DOMAIN toggleReqs :
         \E i \in DOMAIN ids :
           /\ toggleReqs[j].uid = uidReqs[i].v
           /\ calls[Len(calls) - Len(toggleReqs) + j] = deleteUser(uidReqs[i].v)

\* C16 witness: delete has exited after the email and the phone number of
\* u1 both resolved to u1; one delete call succeeded, the other found no
\* record, and u2 is as it was.
C16_Witness ==
  /\ cmd = "delete"
  /\ pc = "exited"
  /\ ids = <<Email1, Phone1>>
  /\ \E j, k \in DOMAIN toggleReqs :
       /\ toggleReqs[j].uid = U1 /\ toggleReqs[j].call = "ok"
       /\ toggleReqs[k].uid = U1 /\ toggleReqs[k].reason = "auth/user-not-found"
  /\ ~dir[U1].present
  /\ dir[U2] = InitialDir[U2]

(***************************************************************************)
(* disable, run twice: once the command has exited with status 0 the       *)
(* operator runs the same command line again, on the directory as the      *)
(* first run left it.  out, exits and calls keep what both runs did.       *)
(***************************************************************************)
Rerun ==
  /\ pc = "exited"
  /\ exits = <<0>>
  /\ pc' = "start"
  /\ uidReqs' = <<>>
  /\ toggleReqs' = <<>>
  /\ UNCHANGED <<cmd, opts, ids, dir, getReqs, tableData, out, exits,
                 calls, tables, answers, mutReq, options,
               createReqs>>

InitTwice == Init /\ cmd = "disable" /\ opts = NoFlags /\ Len(ids) < MaxIds

NextTwice ==
  \/ Dispatch
  \/ \E i \in 1..MaxIds : ResolveSettle(i)
  \/ AllResolved
  \/ \E j \in 1..MaxIds : ActionSettle(j)
  \/ AllActed
  \/ Rerun

SpecTwice == InitTwice /\ [][NextTwice]_vars

\* C17: disable on a record that is already disabled, by an earlier run or
\* by another occurrence in the same batch, succeeds like the first: every
\* call that succeeds leaves disabled = TRUE, a call on a record of the
\* directory fails only when the network does, failure lines are printed
\* for such calls only, and every run exits with status 0.
C17_DisableIdempotent ==
  /\ \A j \in DOMAIN toggleReqs :
       /\ toggleReqs[j].call = "ok" => dir[toggleReqs[j].uid].disabled
       /\ toggleReqs[j].call = "failed" =>
            \/ toggleReqs[j].reason = "network-error"
            \/ ~Present(dir, toggleReqs[j].uid)
  /\ \A k \in DOMAIN out :
       out[k].text = FailureText("disable") =>
         out[k].reason = "network-error" \/ ~Present(dir, out[k].arg)
  /\ \A u \in Uids : InitialDir[u].disabled => dir[u].disabled
  /\ exits \in {<<>>, <<0>>, <<0, 0>>}

\* C17 witness: disable with the same email twice has exited with status 0
\* for the second time; the four calls have each printed the success line
\* and u1 is disabled.
C17_Witness ==
  /\ ids = <<Email1, Email1>>
  /\ pc = "exited"
  /\ exits = <<0, 0>>
  /\ out = [k \in 1..4 |-> Line("Disabled user %s.", Email1, "")]
  /\ Len(calls) = 8
  /\ dir[U1].disabled

(***************************************************************************)
(* The table of get.                                                       *)
(***************************************************************************)
RowFields ==
  {"uid", "email", "emailVerified", "displayName", "phoneNumber", "disabled"}

DetailedFields == {"customClaims", "creationTime", "lastSignInTime"}

\* C20: when get exits, the table has one row for every identifier whose
\* lookup succeeded and none for the others; a row has the six fields of
\* the record found, and with --detailed also its custom claims, creation
\* time and last sign-in time; the table is printed once if it has a row
\* and not at all if it has none, and the exit status is 0.
C20_GetTable ==
  (cmd = "get" /\ pc = "exited") =>
    /\ exits = <<0>>
    /\ Len(tableData) = Cardinality({i \in DOMAIN getReqs : getReqs[i].call = "ok"})
    /\ \A k \in DOMAIN tableData :
         LET row == tableData[k]
             i == Nth({n \in DOMAIN getReqs : getReqs[n].call = "ok"}, k)
             u == CHOOSE v \in Lookup(dir, getReqs[i].lookup, ids[i]) : TRUE
         IN  /\ DOMAIN row = IF options.detailed
                             THEN RowFields \cup DetailedFields ELSE RowFields
             /\ row.uid = u
             /\ \A f \in DOMAIN row \ {"uid"} : row[f] = dir[u][f]
    /\ tables = IF tableData = <<>> THEN <<>> ELSE <<tableData>>

\* C20 witness: get --detailed has exited after the lookup of one identifier
\* had failed and that of another had found u1; the table printed has the
\* one row, with the creation time of u1.
C20_Witness ==
  /\ cmd = "get"
  /\ options.detailed
  /\ pc = "exited"
  /\ \E i \in DOMAIN getReqs : getReqs[i].call = "failed"
  /\ Len(tables) = 1
  /\ Len(tables[1]) = 1
  /\ tables[1][1].uid = U1
  /\ tables[1][1].creationTime = <<"t", "1">>

(***************************************************************************)
(* Properties of update.                                                   *)
(***************************************************************************)
\* C19 as stated: after a successful update every prompted field of the
\* record equals the operator's answer.  Violated by an answer of false to
\* a confirm prompt on a field that is true.
C19_Original ==
  (cmd = "update" /\ pc = "exited" /\ exits = <<0>>) =>
    \A f \in UpdateFields : dir[mutReq.uid][f] = answers[f]

(***************************************************************************)
(* Properties of create.                                                   *)
(***************************************************************************)
\* The record get has fetched has the fields the operator supplied to
\* create: the uid if one was typed, and the answers to the other prompts
\* (no phone number is prompted for).
RoundTrip ==
  /\ getReqs[1].call = "ok"
  /\ LET user == getReqs[1].user
     IN  /\ answers.uid # <<>> => user.uid = answers.uid
         /\ \A f \in (UpdateFields \cap DOMAIN answers) : user[f] = answers[f]
         /\ user.phoneNumber = <<>>
  /\ Len(tableData) = 1
  /\ tableData[1].uid = mutReq.uid

\* C18 as stated: when create has succeeded and get on the uid of the
\* record created has exited, its lookup having got through to the
\* service, get has fetched the record with the fields supplied.  Violated
\* by a uid of ten digits, which get looks up as a phone number.
C18_Original ==
  (cmd = "get" /\ pc = "exited" /\ getReqs[1].reason # "network-error") =>
    RoundTrip

(***************************************************************************)
(* Classification as a function of the identifier and the flags: command   *)
(* lines that name an identifier more than once, so that one process       *)
(* classifies the same string again, with the expression objects of the    *)
(* calls made explicit.                                                    *)
(***************************************************************************)
\* The lookup the current command makes for identifier id, evaluated anew.
Classified(id) ==
  IF cmd = "get" THEN getUserById(id, opts) ELSE getUidById(id, opts)

\* auth.getUidById(id), given the objects the calls before have made.
\* isPhoneNumber is called only when isEmail(id) || opts.email is false.
getUidByIdOn(heap, id, o) ==
  LET e == isEmailOn(heap, id)
      p == isPhoneNumberOn(e.heap, id)
  IN  IF e.result \/ o.email
      THEN [req |-> RemoteLookup("getUserByEmail", id), heap |-> e.heap]
      ELSE IF p.result \/ o.phoneNumber
      THEN [req |-> RemoteLookup("getUserByPhoneNumber", id), heap |-> p.heap]
      ELSE [req |-> [lookup |-> "none", arg |-> id, call |-> "none",
                     st |-> "fulfilled", hasValue |-> TRUE, v |-> id,
                     user |-> NoUser, reason |-> ""],
            heap |-> p.heap]

\* auth.getUserById(id), given the objects the calls before have made.
getUserByIdOn(heap, id, o) ==
  LET e == isEmailOn(heap, id)
      p == isPhoneNumberOn(e.heap, id)
  IN  IF e.result \/ o.email
      THEN [req |-> RemoteLookup("getUserByEmail", id), heap |-> e.heap]
      ELSE IF p.result \/ o.phoneNumber
      THEN [req |-> RemoteLookup("getUserByPhoneNumber", id), heap |-> p.heap]
      ELSE [req |-> RemoteLookup("getUser", id), heap |-> p.heap]

\* ids.forEach((id) => { ...; reqs.push(req) }) from the i-th identifier on:
\* the calls are made one after the other, each after the objects of the
\* one before.
RECURSIVE forEach(_, _, _, _)
forEach(list, i, heap, reqs) ==
  IF i > Len(list) THEN reqs
  ELSE LET r == IF cmd = "get" THEN getUserByIdOn(heap, list[i], opts)
                ELSE getUidByIdOn(heap, list[i], opts)
       IN  forEach(list, i + 1, r.heap, Append(reqs, r.req))

\* Identifiers named more than once.
RepeatedIds ==
  SeveralLines \cup NeitherShape \cup {Email1, Phone1, Email2}

InitRepeat ==
  /\ Start({<<s>> : s \in ClassifyIds}
           \cup {<<s, s>> : s \in RepeatedIds}
           \cup {<<s, t, s>> : s \in {Email1, Phone1, U1}, t \in {Email1, Phone1}})
  /\ cmd \in Commands

\* Dispatch, with the lookups made one after the other by forEach.
DispatchRepeat ==
  /\ pc = "start"
  /\ cmd \in Commands
  /\ pc' = "resolving"
  /\ uidReqs' = IF cmd \in Mutating THEN forEach(ids, 1, NoExprs, <<>>)
                ELSE uidReqs
  /\ getReqs' = IF cmd = "get" THEN forEach(ids, 1, NoExprs, <<>>)
                ELSE getReqs
  /\ calls' = calls \o LookupCalls(IF cmd = "get" THEN getReqs' ELSE uidReqs', 1)
  /\ UNCHANGED <<cmd, opts, ids, dir, toggleReqs, tableData, out, exits,
                 tables, answers, mutReq, options, createReqs>>

NextRepeat ==
  \/ DispatchRepeat
  \/ \E i \in 1..(MaxIds + 1) : ResolveSettle(i)
  \/ AllResolved
  \/ \E j \in 1..(MaxIds + 1) : ActionSettle(j)
  \/ AllActed
  \/ \E i \in 1..(MaxIds + 1) : GetSettle(i)
  \/ AllFetched

SpecRepeat == InitRepeat /\ [][NextRepeat]_vars

\* The three classes, by what the command did with the identifier.
AsEmail(i) ==
  /\ LookupReqs[i].lookup = "getUserByEmail"
  /\ LookupReqs[i].arg = ids[i]

AsPhone(i) ==
  /\ LookupReqs[i].lookup = "getUserByPhoneNumber"
  /\ LookupReqs[i].arg = ids[i]

AsOpaque(i) == Verbatim(LookupReqs[i], ids[i])

\* The remote lookups made: one for each identifier that is not kept as it
\* is, in the order of the identifiers.
LookupsMade ==
  LET looked == {i \in DOMAIN LookupReqs : LookupReqs[i].lookup # "none"}
  IN  /\ CallsOf(LookupMethods) = Cardinality(looked)
      /\ \A i \in looked :
           LET k == Cardinality({j \in looked : j <= i})
           IN  /\ calls[k].method = LookupReqs[i].lookup
               /\ calls[k].arg = ids[i]

\* C22: every identifier is given exactly one of the classes Email, Phone
\* and Opaque; an identifier named again on the command line is given the
\* class it was given before, which is the class a first evaluation gives
\* it; and classification itself never yields a failure: a promise without
\* a remote call is fulfilled with the identifier, and a failed one has a
\* remote lookup behind it, with a reason of the service.
C22_ClassificationTotalDeterministic ==
  /\ pc # "start" => Len(LookupReqs) = Len(ids) /\ LookupsMade
  /\ \A i \in DOMAIN LookupReqs :
       LET req == LookupReqs[i]
       IN  /\ Cardinality({c \in {"Email", "Phone", "Opaque"} :
                             \/ c = "Email" /\ AsEmail(i)
                             \/ c = "Phone" /\ AsPhone(i)
                             \/ c = "Opaque" /\ AsOpaque(i)}) = 1
           /\ \A j \in DOMAIN LookupReqs :
                ids[j] = ids[i] =>
                  /\ AsEmail(j) = AsEmail(i)
                  /\ AsPhone(j) = AsPhone(i)
                  /\ AsOpaque(j) = AsOpaque(i)
           /\ Classified(ids[i]).lookup = req.lookup
           /\ req.call = "none" =>
                req.lookup = "none" /\ req.st = "fulfilled" /\ req.v = ids[i]
           /\ req.call = "pending" => req.st = "pending"
           /\ req.call = "failed" =>
                /\ req.lookup \in LookupMethods
                /\ req.reason \in {"auth/user-not-found", "network-error"}

\* C22 witness: a command that names the same email-shaped identifier twice
\* has exited; both were looked up by email, the second lookup having
\* failed.
C22_Witness ==
  /\ pc = "exited"
  /\ Len(ids) = 2
  /\ ids[1] = ids[2]
  /\ isEmail(ids[1])
  /\ opts = NoFlags
  /\ AsEmail(1) /\ AsEmail(2)
  /\ LookupReqs[1].call = "ok"
  /\ LookupReqs[2].call = "failed"

(***************************************************************************)
(* The barrier between the two stages.                                     *)
(***************************************************************************)
\* C24: no action call is issued while a lookup of the batch is unsettled:
\* every lookup call precedes every action call, and as long as a lookup is
\* unsettled the directory is as the batch found it, so no lookup sees what
\* an action of the same batch did.
C24_StageBarrier ==
  cmd \in Mutating =>
    /\ toggleReqs # <<>> =>
         /\ Len(uidReqs) = Len(ids)
         /\ \A i \in DOMAIN uidReqs : uidReqs[i].call # "pending"
    /\ \A k, l \in DOMAIN calls :
         (calls[k].method \in ActionMethods /\ calls[l].method \in LookupMethods)
           => l < k
    /\ (pc = "start" \/ \E i \in DOMAIN uidReqs : uidReqs[i].call = "pending") =>
         /\ dir = InitialDir
         /\ CallsOf(ActionMethods) = 0
    /\ \A i \in DOMAIN uidReqs :
         uidReqs[i].call = "ok" => uidReqs[i].v \in Lookup(InitialDir, uidReqs[i].lookup, ids[i])

\* C24 witness: delete has removed u1 after the lookups of its email and of
\* its phone number had both found it.
C24_Witness ==
  /\ cmd = "delete"
  /\ ids = <<Email1, Phone1>>
  /\ Len(uidReqs) = 2
  /\ uidReqs[1].call = "ok" /\ uidReqs[1].v = U1
  /\ uidReqs[2].call = "ok" /\ uidReqs[2].v = U1
  /\ ~dir[U1].present
  /\ \E j \in DOMAIN toggleReqs : toggleReqs[j].call = "pending"

(***************************************************************************)
(* Where an identifier without a record fails.                             *)
(***************************************************************************)
\* C25: for an identifier classified Opaque, getUidById makes no remote call
\* and is fulfilled with the identifier, so in revoke, disable, enable and
\* delete it never ends in ResolutionFailed, and one that names no record
\* (and is not empty) ends in ActionFailed; getUserById looks it up by uid,
\* so in get one that names no record fails at the lookup.
C25_OpaqueFailsAtAction ==
  \A i \in DOMAIN LookupReqs :
    LET req == LookupReqs[i]
        id == ids[i]
    IN  KindOf(req) = "Opaque" =>
          IF cmd \in Mutating
          THEN /\ req.call = "none" /\ req.st = "fulfilled" /\ req.v = id
               /\ \A k \in DOMAIN calls :
                    calls[k].method \in LookupMethods => calls[k].arg # id
               /\ ItemState(i) # "ResolutionFailed"
               /\ (pc = "exited" /\ id # <<>> /\ ~Present(InitialDir, id)) =>
                    /\ ItemState(i) = "ActionFailed"
                    /\ \E k \in DOMAIN out :
                         out[k].text = FailureText(cmd) /\ out[k].arg = id
          ELSE /\ req.lookup = "getUser"
               /\ \E k \in DOMAIN calls :
                    calls[k] = DirectoryCall("getUser", id, NoProps)
               /\ (pc = "exited" /\ ~Present(InitialDir, id)) =>
                    /\ req.call = "failed"
                    /\ \E k \in DOMAIN out :
                         /\ out[k].text = "Couldn't fetch user for ID %s: %s"
                         /\ out[k].arg = id

\* C25 witness: delete of an identifier of neither shape that names no
\* record has exited; the only call made was the delete, which found no
\* record.
C25_Witness ==
  /\ cmd = "delete"
  /\ ids = <<<<"1", "2", "3">>>>
  /\ pc = "exited"
  /\ ItemState(1) = "ActionFailed"
  /\ toggleReqs[1].reason = "auth/user-not-found"
  /\ calls = <<deleteUser(<<"1", "2", "3">>)>>

(***************************************************************************)
(* Which identifiers reach the action stage.                               *)
(***************************************************************************)
\* The positions of the identifiers whose resolution did not fail.
Succeeded == {i \in DOMAIN uidReqs : uidReqs[i].call \in {"none", "ok"}}

\* C26 as stated: once the second stage has begun, an identifier has an
\* action call if and only if its resolution succeeded, and at exit each of
\* these has a line.  Violated by the empty string: its resolution
\* succeeds, no action is called and no line is printed.
C26_Original ==
  (cmd \in Mutating /\ pc \in {"acting", "exited"}) =>
    /\ \A i \in DOMAIN ids : (i \in Succeeded) <=> (ActionOf(i) # {})
    /\ pc = "exited" => Len(out) >= Cardinality(Succeeded)

\* C29 as stated: the number of action calls issued equals the number of
\* identifier occurrences whose resolution succeeded, each call has its own
\* line at exit, and the exit status is 0.  Violated by an occurrence of the
\* empty string, which resolves and gets no action call.
C29_Original ==
  (cmd \in Mutating /\ pc \in {"acting", "exited"}) =>
    /\ Len(toggleReqs) = Cardinality(Succeeded)
    /\ CallsOf(ActionMethods) = Cardinality(Succeeded)
    /\ pc = "exited" =>
         /\ exits = <<0>>
         /\ Len(out) = Len(toggleReqs) + Cardinality(DOMAIN ids \ Succeeded)

(***************************************************************************)
(* What create sends.                                                      *)
(***************************************************************************)
\* C30: a createUser call carries no property other than uid, email,
\* emailVerified, displayName, phoneNumber, photoURL and disabled, so never
\* the password; an answer that is a non-empty string or true is sent as it
\* is, and one that is empty or false is not sent at all.
C30_CreateForwardsTruthyOnly ==
  \A k \in DOMAIN calls :
    calls[k].method = "createUser" =>
      LET props == calls[k].props
      IN  /\ DOMAIN props \subseteq
               {"uid", "email", "emailVerified", "displayName", "phoneNumber",
                "photoURL", "disabled"}
          /\ "password" \notin DOMAIN props
          /\ "phoneNumber" \notin DOMAIN props
          /\ \A f \in {"uid", "email", "displayName", "photoURL"} :
               IF answers[f] = <<>> THEN f \notin DOMAIN props
               ELSE f \in DOMAIN props /\ props[f] = answers[f]
          /\ \A f \in {"emailVerified", "disabled"} :
               IF answers[f] THEN f \in DOMAIN props /\ props[f]
               ELSE f \notin DOMAIN props

\* C30 witness: create has succeeded with a password typed, an email typed,
\* disabled answered no and the uid left empty; the call carried the email
\* only.
C30_Witness ==
  /\ cmd = "create"
  /\ pc = "exited"
  /\ exits = <<0>>
  /\ answers.password = <<"p", "w">>
  /\ answers.email = Email2
  /\ answers.uid = <<>> /\ ~answers.disabled
  /\ calls = <<DirectoryCall("createUser", <<>>, [email |-> Email2])>>

(***************************************************************************)
(* update and create together; how they end.                               *)
(***************************************************************************)
InitSingle == InitUpdate \/ InitCreate

NextSingle == NextUpdate \/ NextCreate

SpecSingle == InitSingle /\ [][NextSingle]_vars

\* C27: in update and create a failed lookup and a failed updateUser or
\* createUser call end the command at once with the reason printed and
\* status 1; after a failed lookup of update no prompt has been answered
\* and no updateUser call has been made, and a failed call leaves the
\* directory as it was.
C27_SingleFailuresExitOne ==
  /\ (cmd = "update" /\ getReqs # <<>> /\ getReqs[1].call = "failed") =>
       /\ pc = "exited"
       /\ exits = <<1>>
       /\ out = <<Line(getReqs[1].reason, <<>>, "")>>
       /\ getReqs[1].reason \in {"auth/user-not-found", "network-error"}
       /\ answers = NoAnswers
       /\ mutReq = NoRequest
       /\ CallsOf(ActionMethods) = 0
       /\ dir = InitialDir
  /\ (cmd \in {"update", "create"} /\ mutReq # NoRequest /\ mutReq.call = "failed") =>
       /\ pc = "exited"
       /\ exits = <<1>>
       /\ out = <<Line(mutReq.reason, <<>>, "")>>
       /\ mutReq.reason # ""
       /\ dir = InitialDir

\* C27 witness: update of the user with email a@b.cc has exited with status
\* 1 after the prompts were answered and updateUser failed.
C27_Witness ==
  /\ cmd = "update"
  /\ ids = <<Email1>>
  /\ pc = "exited"
  /\ exits = <<1>>
  /\ answers # NoAnswers
  /\ mutReq.call = "failed"
  /\ out = <<Line("network-error", <<>>, "")>>

\* C28 as stated: when update or create is over, exit has been called
\* exactly once, with status 0 or 1.  Violated by a rejected prompt, whose
\* catch does not call exit.
C28_Original ==
  cmd \in {"update", "create"} =>
    /\ Len(exits) <= 1
    /\ pc \in {"exited", "ended"} => exits \in {<<0>>, <<1>>}

(***************************************************************************)
(* create --fake <number>: the records are made of generated data, without *)
(* a prompt.                                                               *)
(***************************************************************************)
MaxFake == 3

Digit(k) == <<"1", "2", "3", "4", "5", "6", "7", "8", "9">>[k]

\* The uid the service generates for the record of the k-th request: no uid
\* is sent, and the service gives every record a uid of its own.
FakeUid(k) == <<"f", Digit(k)>>
FakeUids == {FakeUid(k) : k \in 1..MaxFake}

\* The names faker can generate; two requests may be given the same one.
FakeNames == {<<"n", Digit(k)>> : k \in 1..MaxFake}

FakeDir ==
  [u \in AllUids \cup FakeUids |-> IF u \in AllUids THEN InitialDir[u] ELSE Absent]

\* auth.createFakeUser: auth.createUser(newUser) on the service, with the
\* six generated properties as they are.
createFakeUser(name) ==
  DirectoryCall("createUser", <<>>,
                [email |-> name \o <<"@", "x">>, emailVerified |-> FALSE,
                 password |-> <<"p", "w">>, displayName |-> name,
                 photoURL |-> <<"p">>, disabled |-> FALSE])

\* Why the service rejects a creation that sends no uid: the call does not
\* get through, or a record has the email already.
FakeRejection(d, props, net) ==
  IF ~net THEN "network-error"
  ELSE IF \E u \in DOMAIN d : d[u].present /\ d[u].email = props.email
       THEN "auth/email-already-exists"
  ELSE ""

\* A loop that starts at index 1.
FakeRequests_OneShort(n) == [k \in 1..(n - 1) |-> RemoteAction(FakeUid(k), k)]

\* for (let index = 0; index < opts.fake; index++) createReqs.push(req)
FakeRequests(n) == [k \in 1..n |-> RemoteAction(FakeUid(k), k)]

\* The catch handler of a request evaluates auth.presentableName(newUser)
\* where no newUser is in scope: it throws before it prints, and the promise
\* it returns is rejected with the ReferenceError.
FakeCatch(req, why) ==
  [req EXCEPT !.call = "failed", !.st = "rejected",
              !.reason = "newUser is not defined"]

InitFake ==
  /\ cmd = "create"
  /\ opts = NoFlags
  /\ ids = <<>>
  /\ pc = "start"
  /\ dir = FakeDir
  /\ uidReqs = <<>>
  /\ toggleReqs = <<>>
  /\ getReqs = <<>>
  /\ tableData = <<>>
  /\ out = <<>>
  /\ exits = <<>>
  /\ calls = <<>>
  /\ tables = <<>>
  /\ answers = NoAnswers
  /\ mutReq = NoRequest
  /\ options \in [detailed : {FALSE}, fake : {<<n>> : n \in 0..MaxFake}]
  /\ createReqs = <<>>

\* The loop of the fake branch: every request is issued, then Promise.all is
\* called on them.
FakeDispatch ==
  /\ pc = "start"
  /\ cmd = "create"
  /\ options.fake # <<>>
  /\ createReqs' = FakeRequests(options.fake[1])
  /\ \E names \in [DOMAIN createReqs' -> FakeNames] :
       calls' = calls \o [k \in DOMAIN createReqs' |-> createFakeUser(names[k])]
  /\ pc' = "creating"
  /\ UNCHANGED <<cmd, opts, ids, dir, uidReqs, toggleReqs, getReqs, tableData,
                 out, exits, tables, answers, mutReq, options>>

\* The k-th creation settles.  The handler of Promise.all runs as soon as one
\* request is rejected, before any other request settles.
FakeSettle(k) ==
  /\ pc = "creating"
  /\ k \in DOMAIN createReqs
  /\ createReqs[k].call = "pending"
  /\ PromiseAll(createReqs) = "pending"
  /\ \E net \in BOOLEAN :
       LET props == calls[k].props
           uid == createReqs[k].uid
           why == FakeRejection(dir, props, net)
       IN  IF why = ""
           THEN /\ createReqs' =
                     [createReqs EXCEPT ![k].call = "ok", ![k].st = "fulfilled"]
                /\ dir' = [dir EXCEPT ![uid] = Created(props)]
                /\ out' = Append(out, Line("Created user %s.",
                                           presentableName(UserRecord(dir', uid)),
                                           ""))
           ELSE /\ createReqs' =
                     [createReqs EXCEPT ![k] = FakeCatch(createReqs[k], why)]
                /\ dir' = dir
                /\ out' = out
  /\ UNCHANGED <<cmd, opts, ids, pc, uidReqs, toggleReqs, getReqs, tableData,
                 exits, calls, tables, answers, mutReq, options>>

\* Promise.all(createReqs).then(success).catch(error(reason.message))
FakeAllCreated ==
  /\ pc = "creating"
  /\ PromiseAll(createReqs) # "pending"
  /\ IF PromiseAll(createReqs) = "fulfilled"
     THEN success(NoMessage)
     ELSE error(RejectionMessage(createReqs))
  /\ UNCHANGED <<cmd, opts, ids, dir, uidReqs, toggleReqs, getReqs, tableData,
                 calls, tables, answers, mutReq, options, createReqs>>

NextFake ==
  \/ FakeDispatch
  \/ \E k \in 1..(MaxFake + 1) : FakeSettle(k)
  \/ FakeAllCreated

SpecFake == InitFake /\ [][NextFake]_vars

(***************************************************************************)
(* C21: create --fake n issues exactly n creation requests, each a         *)
(* createUser call with generated properties; all of them are issued       *)
(* before any of them has settled, and no prompt is shown.                 *)
(***************************************************************************)
FakeIssued ==
  /\ Len(createReqs) = options.fake[1]
  /\ Len(calls) = options.fake[1]
  /\ \A k \in DOMAIN calls :
       /\ calls[k].method = "createUser"
       /\ DOMAIN calls[k].props =
            {"email", "emailVerified", "password", "displayName", "photoURL",
             "disabled"}
  /\ answers = NoAnswers
  /\ pc \in {"creating", "exited"}

IssuedAtOnce ==
  calls' # calls =>
    /\ calls = <<>>
    /\ Len(calls') = options.fake[1]
    /\ \A k \in DOMAIN createReqs' : createReqs'[k].call = "pending"

C21_FakeIssuesNRequests ==
  [][IssuedAtOnce]_vars /\ [](pc # "start" => FakeIssued)

C21_Witness ==
  /\ options.fake = <<MaxFake>>
  /\ pc = "creating"
  /\ Len(calls) = MaxFake
  /\ createReqs[1].call = "pending"
  /\ createReqs[MaxFake].call = "ok"

(***************************************************************************)
(* C23: when some of the n creations of create --fake fail, each failure   *)
(* is logged, the other creations settle before the process exits, and the *)
(* exit status is 0.                                                       *)
(***************************************************************************)
C23_Original ==
  (cmd = "create" /\ createReqs # <<>> /\ pc = "exited") =>
    /\ exits = <<0>>
    /\ \A k \in DOMAIN createReqs : createReqs[k].call # "pending"
    /\ Cardinality({i \in DOMAIN out :
                       out[i].text = "Couldn't create fake user %s: %s"}) =
         Cardinality({k \in DOMAIN createReqs : createReqs[k].call = "failed"})

====
